---- MODULE Spec2Model ----
(***************************************************************************)
(* massa-auto-rebuy: the typed JSON-RPC client (src/src/rpc.rs), the       *)
(* operation builder send_operation (src/src/rpc.rs) and the roll-buying   *)
(* policy of main (src/src/main.rs).                                       *)
(*                                                                         *)
(* Every await of the program is a point where the node answers, so each   *)
(* action runs the code from one await to the next.  What the node, the    *)
(* clock and the wallet crate answer is an input of the action.            *)
(*                                                                         *)
(* u64 values are WordBits-bit words: TLC's integers are 32 bits wide, so  *)
(* the width is scaled down and every sum is taken as the code takes it.   *)
(* A raw Amount is written in two limbs (hi * AmountLimb + lo) for the     *)
(* same reason.                                                            *)
(***************************************************************************)
EXTENDS Integers, Sequences, FiniteSets

VARIABLES
    pc,          \* where the program is suspended
    overflow_checks, \* whether the build panics on arithmetic overflow
    wallet,      \* the public keys the wallet file holds
    frame,       \* send_operation's arguments: op, fee, addr, json
    calls,       \* every RPC request sent and wallet call made, in order
    failures,    \* the RPC calls that came back Err, with their message
    status,      \* what get_status and the slot computation returned
    content,     \* the OperationContent handed to create_operation
    wallet_info, \* main's wallet_info: what get_addresses returned
    stdout,      \* lines printed
    result       \* what main (or send_operation) returned

vars == <<pc, overflow_checks, wallet, frame, calls, failures, status,
          content, wallet_info, stdout, result>>

(***************************************************************************)
(* Bounds of the model.                                                    *)
(***************************************************************************)
WordBits == 7
MaxKeys == 2
MaxAddrs == 2
MaxItems == 2

Modulus == 2 ^ WordBits
MaxU64 == Modulus - 1

-----------------------------------------------------------------------------
(***************************************************************************)
(* Values of the massa crates that the code only carries.                  *)
(***************************************************************************)
PublicKeys == {"pkA", "pkB", "pkC"}

\* An address is modelled by its first byte, which is all get_thread reads.
AddressFromPublicKey(pk) ==
    CASE pk = "pkA" -> 0
      [] pk = "pkB" -> 40
      [] pk = "pkC" -> 160

Addresses == {AddressFromPublicKey(pk) : pk \in PublicKeys}

\* addr.get_thread(thread_count): the top log2(thread_count) bits of the
\* first byte; thread_count is a power of two.
GetThread(addr, thread_count) == addr \div (256 \div thread_count)

AmountLimb == 1000000000
AmountFromRaw(hi, lo) == [hi |-> hi, lo |-> lo]
\* a >= b on raw amounts
AmountGe(a, b) == a.hi > b.hi \/ (a.hi = b.hi /\ a.lo >= b.lo)

RollBuy(n) == [variant |-> "RollBuy", roll_count |-> n]
RollSell(n) == [variant |-> "RollSell", roll_count |-> n]

NewSlot(period, thread) == [period |-> period, thread |-> thread]

\* Result<(), anyhow::Error>, and a panic of the process.
Pending == [tag |-> "Pending", msg |-> <<>>]
Ok == [tag |-> "Ok", msg |-> <<>>]
Err(msg) == [tag |-> "Err", msg |-> msg]
Panic(msg) == [tag |-> "Panic", msg |-> msg]

NoFrame == [present |-> FALSE]
NoStatus == [present |-> FALSE]
NoContent == [present |-> FALSE]
NoReply == [present |-> FALSE]

(***************************************************************************)
(* What the outside can answer.                                            *)
(***************************************************************************)
\* messages of the errors of the transport and of the massa crates
LibErrors == {<<"timeout">>, <<"invalid value">>}

ThreadCounts == {1, 32}
ValidityPeriods == {0, 1, 10, MaxU64}
Periods == {0, 100}
Threads == {0, 5, 31}
Ops == {RollBuy(1), RollBuy(2), RollSell(1)}
Fees == {AmountFromRaw(0, 0), AmountFromRaw(0, 1)}
Rolls == {0, 1}
Balances == {AmountFromRaw(99, AmountLimb - 1), AmountFromRaw(100, 0)}

Configs ==
    [thread_count : ThreadCounts, operation_validity_periods : ValidityPeriods]

\* get_current_latest_block_slot(..): Err(e), Ok(None) or Ok(Some(slot))
SlotResults(cfg) ==
    {[tag |-> "Err", msg |-> e, slot |-> NewSlot(0, 0)] : e \in LibErrors}
    \cup {[tag |-> "None", msg |-> <<>>, slot |-> NewSlot(0, 0)]}
    \cup {[tag |-> "Some", msg |-> <<>>, slot |-> NewSlot(p, t)] :
            p \in Periods, t \in {u \in Threads : u < cfg.thread_count}}

\* wallet.create_operation(..): Ok(Operation) or Err(e)
SignResults == {[tag |-> "Ok", msg |-> <<>>]}
               \cup {[tag |-> "Err", msg |-> e] : e \in LibErrors}

AddressInfos ==
    [address : Addresses, candidate_rolls : Rolls, balance : Balances]

SeqsUpTo(S, n) == UNION {[1..k -> S] : k \in 0..n}

\* the orders in which a set can be listed
Orders(S) == {s \in [1..Cardinality(S) -> S] :
                 \A i, j \in 1..Cardinality(S) : i # j => s[i] # s[j]}

-----------------------------------------------------------------------------
(***************************************************************************)
(* RpcClient: the typed wrappers over call_method.                         *)
(*                                                                         *)
(* A Rust value handed to call_method is a unit, a Vec, a struct or a      *)
(* value the client only carries.  call_method serialises it with serde    *)
(* and sends the outcome as the request's params: a unit serialises to     *)
(* null, a Vec to an array of its serialised items, a struct to an object  *)
(* of its serialised fields.                                               *)
(***************************************************************************)
Unit == [t |-> "unit", items |-> <<>>]
Vec(items) == [t |-> "vec", items |-> items]
Struct(fields) == [t |-> "struct", items |-> fields]
Leaf(x) == [t |-> "leaf", items |-> <<x>>]

\* Vec<X> of carried values
VecOf(xs) == Vec([i \in 1..Len(xs) |-> Leaf(xs[i])])
\* Option<X> of a carried value: None is absent, Some(x) is x
OptionOf(o) == IF o = {} THEN Unit ELSE Leaf(CHOOSE x \in o : TRUE)
TimeInterval(start, end) == Struct(<<OptionOf(start), OptionOf(end)>>)

RECURSIVE Serialize(_)
Serialize(v) ==
    CASE v.t = "unit" -> [j |-> "null", items |-> <<>>]
      [] v.t = "vec" ->
            [j |-> "array",
             items |-> [i \in 1..Len(v.items) |-> Serialize(v.items[i])]]
      [] v.t = "struct" ->
            [j |-> "object",
             items |-> [i \in 1..Len(v.items) |-> Serialize(v.items[i])]]
      [] v.t = "leaf" -> [j |-> "value", items |-> v.items]

\* The request call_method(method, returns, args) puts on the wire.
CallMethod(method, args) ==
    [kind |-> "rpc", name |-> method, arg |-> Serialize(args)]

stop_node == CallMethod("stop_node", Unit)
node_sign_message(message) ==
    CallMethod("node_sign_message", Vec(<<VecOf(message)>>))
add_staking_private_keys(private_keys) ==
    CallMethod("add_staking_private_keys", Vec(<<VecOf(private_keys)>>))
remove_staking_addresses(addresses) ==
    CallMethod("remove_staking_addresses", Vec(<<VecOf(addresses)>>))
get_staking_addresses == CallMethod("get_staking_addresses", Unit)
ban(ips) == CallMethod("ban", Vec(<<VecOf(ips)>>))
unban(ips) == CallMethod("unban", Vec(<<VecOf(ips)>>))
get_status == CallMethod("get_status", Unit)
get_cliques == CallMethod("get_cliques", Unit)
get_stakers == CallMethod("get_stakers", Unit)
get_operations(operation_ids) ==
    CallMethod("get_operations", Vec(<<VecOf(operation_ids)>>))
get_endorsements(endorsement_ids) ==
    CallMethod("get_endorsements", Vec(<<VecOf(endorsement_ids)>>))
get_block(block_id) == CallMethod("get_block", Vec(<<Leaf(block_id)>>))
get_graph_interval(start, end) ==
    CallMethod("get_graph_interval", TimeInterval(start, end))
get_addresses(addresses) ==
    CallMethod("get_addresses", Vec(<<VecOf(addresses)>>))
send_operations(operations) ==
    CallMethod("send_operations", Vec(<<VecOf(operations)>>))

-----------------------------------------------------------------------------
(***************************************************************************)
(* send_operation                                                          *)
(***************************************************************************)
\* rpc_error! that returns the underlying error as it came
RpcError_Unwrapped(e) == Err(e)

\* rpc_error!(e): bail!("check if your node is running: {}", e)
RpcError(e) == Err(<<"check if your node is running: ">> \o e)

\* bail!("Missing public key")
MissingPublicKey == Err(<<"Missing public key">>)

\* a + b on u64: the wrapped sum, and whether it overflowed
AddU64(a, b) == [overflow |-> a + b >= Modulus, value |-> (a + b) % Modulus]

\* expire_period of lines 40-43.  An overflowing sum panics in a build with
\* overflow checks and wraps in a build without.
ExpirePeriod(slot, cfg, addr, checks) ==
    LET first == AddU64(slot.period, cfg.operation_validity_periods)
        second == IF slot.thread >= GetThread(addr, cfg.thread_count)
                  THEN AddU64(first.value, 1)
                  ELSE [overflow |-> FALSE, value |-> first.value]
    IN  [panic |-> checks /\ (first.overflow \/ second.overflow),
         value |-> second.value]

\* wallet.find_associated_public_key(addr): the Option as a set
FindAssociatedPublicKey(w, addr) ==
    {pk \in w : AddressFromPublicKey(pk) = addr}

\* a content built with a default fee instead of the argument
OperationContent_DefaultFee(sender_public_key, fee, expire_period, op) ==
    [present |-> TRUE, sender_public_key |-> sender_public_key,
     fee |-> AmountFromRaw(0, 0), expire_period |-> expire_period, op |-> op]

OperationContent(sender_public_key, fee, expire_period, op) ==
    [present |-> TRUE, sender_public_key |-> sender_public_key, fee |-> fee,
     expire_period |-> expire_period, op |-> op]

\* the Operation wallet.create_operation(content, address) returns
CreateOperation(c, address) == [content |-> c, signed_for |-> address]

WalletCall(name, args) ==
    [kind |-> "wallet", name |-> name, arg |-> [j |-> "wallet", items |-> args]]

\* the function returns r
Return(r) ==
    /\ result' = r
    /\ pc' = "done"

\* lines 24-32: the call, up to the await of get_status
EnterSendOperation(op, fee, addr, json) ==
    /\ frame' = [present |-> TRUE, op |-> op, fee |-> fee, addr |-> addr,
                 json |-> json]
    /\ calls' = Append(calls, get_status)
    /\ pc' = "get_status"

\* lines 32-35: get_status came back Err
GetStatusErr ==
    /\ pc = "get_status"
    /\ \E e \in LibErrors :
          /\ failures' = Append(failures, [name |-> "get_status", msg |-> e])
          /\ Return(RpcError(e))
    /\ UNCHANGED <<overflow_checks, wallet, frame, calls, status, content,
                   wallet_info, stdout>>

\* a build that does not stop at a missing key
BuildStage_NoKeyCheck(slotres, exp, key, signres) ==
    IF slotres.tag = "Err" THEN "slot_error"
    ELSE IF exp.panic THEN "overflow"
    ELSE IF signres.tag = "Err" THEN "sign_error"
    ELSE "signed"

\* lines 38-57: how far the build gets.  Each step that fails returns
\* before the next one runs.
BuildStage(slotres, exp, key, signres) ==
    IF slotres.tag = "Err" THEN "slot_error"
    ELSE IF exp.panic THEN "overflow"
    ELSE IF key = {} THEN "missing_key"
    ELSE IF signres.tag = "Err" THEN "sign_error"
    ELSE "signed"

\* lines 32-59: get_status came back Ok; the build, up to the await of
\* send_operations
GetStatusOk ==
    /\ pc = "get_status"
    /\ \E cfg \in Configs : \E slotres \in SlotResults(cfg) :
       \E signres \in SignResults :
          LET slot == IF slotres.tag = "Some" THEN slotres.slot
                      ELSE NewSlot(0, 0)
              exp == ExpirePeriod(slot, cfg, frame.addr, overflow_checks)
              key == FindAssociatedPublicKey(wallet, frame.addr)
              sender_public_key == IF key = {} THEN "none"
                                   ELSE CHOOSE pk \in key : TRUE
              c == OperationContent(sender_public_key, frame.fee, exp.value,
                                    frame.op)
              lookup == WalletCall("find_associated_public_key",
                                   <<frame.addr>>)
              sign == WalletCall("create_operation", <<c, frame.addr>>)
              stage == BuildStage(slotres, exp, key, signres)
          IN  /\ status' = [present |-> TRUE, cfg |-> cfg,
                            slot_result |-> slotres.tag, slot |-> slot]
              /\ CASE stage = "slot_error" ->
                        /\ Return(Err(slotres.msg))
                        /\ UNCHANGED <<calls, content>>
                   [] stage = "overflow" ->
                        /\ Return(Panic(<<"attempt to add with overflow">>))
                        /\ UNCHANGED <<calls, content>>
                   [] stage = "missing_key" ->
                        /\ Return(MissingPublicKey)
                        /\ calls' = Append(calls, lookup)
                        /\ UNCHANGED content
                   [] stage = "sign_error" ->
                        /\ Return(Err(signres.msg))
                        /\ calls' = calls \o <<lookup, sign>>
                        /\ content' = c
                   [] stage = "signed" ->
                        /\ calls' = calls \o
                              <<lookup, sign,
                                send_operations(
                                    <<CreateOperation(c, frame.addr)>>)>>
                        /\ content' = c
                        /\ pc' = "send_operations"
                        /\ UNCHANGED result
    /\ UNCHANGED <<overflow_checks, wallet, frame, failures, wallet_info,
                   stdout>>

\* lines 59-65: send_operations came back Ok
SendOperationsOk ==
    /\ pc = "send_operations"
    /\ stdout' = IF frame.json THEN stdout
                 ELSE Append(stdout, "Sent operation IDs:")
    /\ Return(Ok)
    /\ UNCHANGED <<overflow_checks, wallet, frame, calls, failures, status,
                   content, wallet_info>>

\* a failed send_operations that is sent again
SendOperationsErr_Retry ==
    /\ pc = "send_operations"
    /\ Len(failures) < 2
    /\ \E e \in LibErrors :
          failures' = Append(failures, [name |-> "send_operations", msg |-> e])
    /\ calls' = Append(calls, calls[Len(calls)])
    /\ UNCHANGED <<pc, overflow_checks, wallet, frame, status, content,
                   wallet_info, stdout, result>>

\* lines 59, 66: send_operations came back Err
SendOperationsErr ==
    /\ pc = "send_operations"
    /\ \E e \in LibErrors :
          /\ failures' = Append(failures,
                                [name |-> "send_operations", msg |-> e])
          /\ Return(RpcError(e))
    /\ UNCHANGED <<overflow_checks, wallet, frame, calls, status, content,
                   wallet_info, stdout>>

\* a caller invokes send_operation
SendOperation ==
    /\ pc = "send_operation"
    /\ \E op \in Ops, fee \in Fees, addr \in Addresses, json \in BOOLEAN :
          EnterSendOperation(op, fee, addr, json)
    /\ UNCHANGED <<overflow_checks, wallet, failures, status, content,
                   wallet_info, stdout, result>>

-----------------------------------------------------------------------------
(***************************************************************************)
(* main                                                                    *)
(***************************************************************************)
RollPriceUnits == 100
\* Amount::from_raw(100000000000)
RollThreshold == AmountFromRaw(RollPriceUnits, 0)

\* the condition with a balance strictly above the threshold
ShouldBuy_StrictlyAbove(wallet_addresses) ==
    /\ Len(wallet_addresses) # 0
    /\ wallet_addresses[1].candidate_rolls = 0
    /\ ~AmountGe(RollThreshold, wallet_addresses[1].balance)

\* the condition of line 23
ShouldBuy(wallet_addresses) ==
    /\ Len(wallet_addresses) # 0
    /\ wallet_addresses[1].candidate_rolls = 0
    /\ AmountGe(wallet_addresses[1].balance, RollThreshold)

Startups == {"no_host", "bad_port", "bad_ip", "no_node", "no_wallet", "ok"}

\* lines 10-21: the start of main, up to the await of get_addresses
MainStart ==
    /\ pc = "main"
    /\ \E startup \in Startups :
          CASE startup = "no_host" ->
                 /\ Return(Err(<<"the host argument is missing">>))
                 /\ UNCHANGED calls
            [] startup \in {"bad_port", "bad_ip"} ->
                 /\ Return(Panic(<<"called Result::unwrap() on an Err value">>))
                 /\ UNCHANGED calls
            [] startup = "no_node" ->
                 /\ Return(Panic(<<"Unable to connect to Node.">>))
                 /\ UNCHANGED calls
            [] startup = "no_wallet" ->
                 /\ \E e \in LibErrors : Return(Err(e))
                 /\ UNCHANGED calls
            [] startup = "ok" ->
                 /\ \E keys \in Orders({AddressFromPublicKey(pk) : pk \in wallet}) :
                       calls' = Append(calls, get_addresses(keys))
                 /\ pc' = "get_addresses"
                 /\ UNCHANGED result
    /\ UNCHANGED <<overflow_checks, wallet, frame, failures, status, content,
                   wallet_info, stdout>>

\* lines 21-22, 27: get_addresses came back Err
GetAddressesErr ==
    /\ pc = "get_addresses"
    /\ \E e \in LibErrors :
          failures' = Append(failures, [name |-> "get_addresses", msg |-> e])
    /\ Return(Ok)
    /\ UNCHANGED <<overflow_checks, wallet, frame, calls, status, content,
                   wallet_info, stdout>>

\* lines 21-27: get_addresses came back Ok
GetAddressesOk ==
    /\ pc = "get_addresses"
    /\ \E wallet_addresses \in SeqsUpTo(AddressInfos, MaxAddrs) :
          /\ wallet_info' = [present |-> TRUE, value |-> wallet_addresses]
          /\ IF ShouldBuy(wallet_addresses)
             THEN /\ EnterSendOperation(RollBuy(1), AmountFromRaw(0, 0),
                                        wallet_addresses[1].address, TRUE)
                  /\ UNCHANGED result
             ELSE /\ Return(Ok)
                  /\ UNCHANGED <<frame, calls>>
    /\ UNCHANGED <<overflow_checks, wallet, failures, status, content, stdout>>

-----------------------------------------------------------------------------
(***************************************************************************)
(* One call of a method of RpcClient                                       *)
(***************************************************************************)
Bytes == {0, 255}
Ids == {"id1", "id2"}
Times == {0, 1}
Options(S) == {{}} \cup {{x} : x \in S}
SampleOperations ==
    {CreateOperation(OperationContent(pk, AmountFromRaw(0, 0), 10, RollBuy(1)),
                     AddressFromPublicKey(pk)) : pk \in {"pkA", "pkB"}}

\* the request is sent and the node answers
Transport(request) ==
    /\ calls' = Append(calls, request)
    /\ \/ /\ Return(Ok)
          /\ UNCHANGED failures
       \/ \E e \in LibErrors :
             /\ failures' = Append(failures, [name |-> request.name, msg |-> e])
             /\ Return(Err(e))
    /\ UNCHANGED <<overflow_checks, wallet, frame, status, content,
                   wallet_info, stdout>>

StopNode ==
    /\ pc = "rpc"
    /\ Transport(stop_node)
NodeSignMessage ==
    /\ pc = "rpc"
    /\ \E m \in SeqsUpTo(Bytes, MaxItems) : Transport(node_sign_message(m))
AddStakingPrivateKeys ==
    /\ pc = "rpc"
    /\ \E ks \in SeqsUpTo(Ids, MaxItems) :
          Transport(add_staking_private_keys(ks))
RemoveStakingAddresses ==
    /\ pc = "rpc"
    /\ \E as \in SeqsUpTo(Addresses, MaxItems) :
          Transport(remove_staking_addresses(as))
GetStakingAddresses ==
    /\ pc = "rpc"
    /\ Transport(get_staking_addresses)
Ban ==
    /\ pc = "rpc"
    /\ \E ips \in SeqsUpTo(Ids, MaxItems) : Transport(ban(ips))
Unban ==
    /\ pc = "rpc"
    /\ \E ips \in SeqsUpTo(Ids, MaxItems) : Transport(unban(ips))
GetStatus ==
    /\ pc = "rpc"
    /\ Transport(get_status)
GetCliques ==
    /\ pc = "rpc"
    /\ Transport(get_cliques)
GetStakers ==
    /\ pc = "rpc"
    /\ Transport(get_stakers)
GetOperations ==
    /\ pc = "rpc"
    /\ \E ids \in SeqsUpTo(Ids, MaxItems) : Transport(get_operations(ids))
GetEndorsements ==
    /\ pc = "rpc"
    /\ \E ids \in SeqsUpTo(Ids, MaxItems) : Transport(get_endorsements(ids))
GetBlock ==
    /\ pc = "rpc"
    /\ \E id \in Ids : Transport(get_block(id))
GetGraphInterval ==
    /\ pc = "rpc"
    /\ \E start \in Options(Times), end \in Options(Times) :
          Transport(get_graph_interval(start, end))
GetAddresses ==
    /\ pc = "rpc"
    /\ \E as \in SeqsUpTo(Addresses, MaxItems) : Transport(get_addresses(as))
SendOperations ==
    /\ pc = "rpc"
    /\ \E ops \in SeqsUpTo(SampleOperations, MaxItems) :
          Transport(send_operations(ops))

-----------------------------------------------------------------------------
(***************************************************************************)
(* Specifications                                                          *)
(***************************************************************************)
Wallets == {w \in SUBSET PublicKeys : Cardinality(w) <= MaxKeys}

Start(at) ==
    /\ pc = at
    /\ overflow_checks \in BOOLEAN
    /\ wallet \in Wallets
    /\ frame = NoFrame
    /\ calls = <<>>
    /\ failures = <<>>
    /\ status = NoStatus
    /\ content = NoContent
    /\ wallet_info = NoReply
    /\ stdout = <<>>
    /\ result = Pending

\* a run of main
Init == Start("main")
Next ==
    \/ MainStart
    \/ GetAddressesErr
    \/ GetAddressesOk
    \/ GetStatusErr
    \/ GetStatusOk
    \/ SendOperationsOk
    \/ SendOperationsErr
Spec == Init /\ [][Next]_vars

\* one invocation of send_operation, with any arguments
InitOp == Start("send_operation")
NextOp ==
    \/ SendOperation
    \/ GetStatusErr
    \/ GetStatusOk
    \/ SendOperationsOk
    \/ SendOperationsErr
SpecOp == InitOp /\ [][NextOp]_vars

\* one call of one method of the client
InitRpc == Start("rpc")
NextRpc ==
    \/ StopNode
    \/ NodeSignMessage
    \/ AddStakingPrivateKeys
    \/ RemoveStakingAddresses
    \/ GetStakingAddresses
    \/ Ban
    \/ Unban
    \/ GetStatus
    \/ GetCliques
    \/ GetStakers
    \/ GetOperations
    \/ GetEndorsements
    \/ GetBlock
    \/ GetGraphInterval
    \/ GetAddresses
    \/ SendOperations
SpecRpc == InitRpc /\ [][NextRpc]_vars

-----------------------------------------------------------------------------
(***************************************************************************)
(* Properties                                                              *)
(***************************************************************************)
CallsOf(name) == {i \in 1..Len(calls) : calls[i].name = name}
Failed(name) == \E i \in 1..Len(failures) : failures[i].name = name

\* the skew correction of step 4: one more period when the slot's thread has
\* reached the sender's
Skew == IF status.slot.thread
             >= GetThread(frame.addr, status.cfg.thread_count)
        THEN 1 ELSE 0

\* C1: the expire_period placed in the OperationContent is S.period + V + 1
\* when S.thread >= A.thread(T) and S.period + V otherwise, for every slot,
\* every operation_validity_periods and every sender.
C1_ExpirePeriodIsSum ==
    content.present =>
        content.expire_period
            = status.slot.period + status.cfg.operation_validity_periods + Skew

\* C1, where the sum fits a u64: the code then computes exactly that sum.
C1_ExpirePeriodIsSumWhenItFits ==
    (content.present
     /\ status.slot.period + status.cfg.operation_validity_periods + Skew
            <= MaxU64) =>
        content.expire_period
            = status.slot.period + status.cfg.operation_validity_periods + Skew

\* C2: whatever the configuration and the sender's thread, the operation's
\* expire_period is strictly greater than the period of the current slot.
C2_ExpireAfterCurrentPeriod ==
    content.present => content.expire_period > status.slot.period

\* C3: when the wallet has no key for the sender, send_operation fails with
\* "Missing public key", create_operation is never invoked and no
\* send_operations request is made.
C3_MissingKeyFailsUnsigned ==
    (CallsOf("find_associated_public_key") # {}
     /\ \A pk \in wallet : AddressFromPublicKey(pk) # frame.addr) =>
        /\ pc = "done"
        /\ result.tag = "Err"
        /\ result.msg = <<"Missing public key">>
        /\ CallsOf("create_operation") = {}
        /\ CallsOf("send_operations") = {}
        /\ ~content.present

C3_Witness ==
    /\ CallsOf("find_associated_public_key") # {}
    /\ \A pk \in wallet : AddressFromPublicKey(pk) # frame.addr
    /\ wallet # {}
    /\ result.tag = "Err"

\* the errors send_operation returns for the other causes: a failed slot
\* computation, a missing key, a failed signature
OtherCauseErrors ==
    {Err(e) : e \in LibErrors} \cup {Err(<<"Missing public key">>)}

\* C4: when get_status fails, send_operation returns an error that says the
\* node may not be running, which no other cause produces, and neither the
\* key lookup nor the signature nor send_operations is executed.
C4_StatusFailureAborts ==
    Failed("get_status") =>
        /\ pc = "done"
        /\ result.tag = "Err"
        /\ Len(result.msg) = 2
        /\ result.msg[1] = "check if your node is running: "
        /\ <<result.msg[2]>> = failures[1].msg
        /\ result \notin OtherCauseErrors
        /\ CallsOf("find_associated_public_key") = {}
        /\ CallsOf("create_operation") = {}
        /\ CallsOf("send_operations") = {}
        /\ ~status.present
        /\ ~content.present

C4_Witness ==
    /\ Failed("get_status")
    /\ result.tag = "Err"
    /\ frame.present

\* C5: a run in which get_addresses, get_status or send_operations fails
\* does not end reporting success; the failure reaches the caller with the
\* underlying message.
C5_NoFailureSwallowed ==
    (pc = "done" /\ failures # <<>>) =>
        /\ result.tag = "Err"
        /\ result.msg = <<"check if your node is running: ">>
                            \o failures[Len(failures)].msg

ZeroArgumentMethods ==
    {"stop_node", "get_staking_addresses", "get_status", "get_cliques",
     "get_stakers"}

\* C6: the params of every request are one JSON array: empty for the
\* zero-argument methods, of one element for every other method.
C6_ParamsAreOneArray ==
    \A i \in 1..Len(calls) :
        calls[i].kind = "rpc" =>
            /\ calls[i].arg.j = "array"
            /\ Len(calls[i].arg.items)
                   = IF calls[i].name \in ZeroArgumentMethods THEN 0 ELSE 1

\* C7: in one invocation of send_operation get_status is requested at most
\* once and send_operations at most once, get_status before
\* send_operations, and a failed send_operations ends the invocation with
\* an error.
C7_NoRetry ==
    /\ Cardinality(CallsOf("get_status")) <= 1
    /\ Cardinality(CallsOf("send_operations")) <= 1
    /\ \A i \in CallsOf("send_operations") :
          \E j \in CallsOf("get_status") : j < i
    /\ Len(failures) <= 1
    /\ Failed("send_operations") => (pc = "done" /\ result.tag = "Err")

C7_Witness ==
    /\ Failed("send_operations")
    /\ pc = "done"
    /\ Cardinality(CallsOf("send_operations")) = 1

\* C8: the OperationContent handed to create_operation carries the fee and
\* op arguments, the key the wallet holds for addr and the computed
\* expire_period; it is signed for addr; send_operations gets exactly that
\* one signed operation.
C8_ContentCarriesInputs ==
    /\ content.present =>
          /\ content.fee = frame.fee
          /\ content.op = frame.op
          /\ content.sender_public_key \in wallet
          /\ AddressFromPublicKey(content.sender_public_key) = frame.addr
          /\ content.expire_period
                = (status.slot.period + status.cfg.operation_validity_periods
                   + Skew) % Modulus
          /\ Cardinality(CallsOf("create_operation")) = 1
    /\ \A i \in CallsOf("create_operation") :
          /\ content.present
          /\ calls[i].arg.items = <<content, frame.addr>>
    /\ \A i \in CallsOf("send_operations") :
          /\ content.present
          /\ calls[i].arg.j = "array"
          /\ Len(calls[i].arg.items) = 1
          /\ calls[i].arg.items[1].j = "array"
          /\ Len(calls[i].arg.items[1].items) = 1
          /\ calls[i].arg.items[1].items[1].items
                = <<[content |-> content, signed_for |-> frame.addr]>>

C8_Witness ==
    /\ CallsOf("send_operations") # {}
    /\ content.present
    /\ content.fee # AmountFromRaw(0, 0)
    /\ content.op = RollSell(1)
    /\ content.expire_period = 111

\* C9: when the slot computation yields no slot the current slot is (0, 0):
\* expire_period is operation_validity_periods + 1 for a sender of thread 0
\* and operation_validity_periods otherwise.  When the slot computation
\* fails, send_operation returns that failure and makes no key lookup, no
\* signature and no send_operations request.
C9_NoSlotDefaultsSlotErrorPropagates ==
    /\ (status.present /\ status.slot_result = "None" /\ content.present) =>
          content.expire_period
             = status.cfg.operation_validity_periods
               + (IF GetThread(frame.addr, status.cfg.thread_count) = 0
                  THEN 1 ELSE 0)
    /\ (status.present /\ status.slot_result = "Err") =>
          /\ pc = "done"
          /\ result \in {Err(e) : e \in LibErrors}
          /\ CallsOf("find_associated_public_key") = {}
          /\ CallsOf("create_operation") = {}
          /\ CallsOf("send_operations") = {}

\* C9, where operation_validity_periods + 1 fits a u64: the default slot
\* (0, 0) gives exactly the expire_period the claim states.
C9_NoSlotDefaultsWhenItFits ==
    (status.present /\ status.slot_result = "None" /\ content.present
     /\ status.cfg.operation_validity_periods < MaxU64) =>
        /\ status.slot = NewSlot(0, 0)
        /\ content.expire_period
              = status.cfg.operation_validity_periods
                + (IF GetThread(frame.addr, status.cfg.thread_count) = 0
                   THEN 1 ELSE 0)

\* the condition of the policy on what get_addresses returned
FirstEntryQualifies ==
    /\ wallet_info.present
    /\ wallet_info.value # <<>>
    /\ wallet_info.value[1].candidate_rolls = 0
    /\ wallet_info.value[1].balance.hi >= 100

\* C10: a roll purchase is attempted at most once, exactly when
\* get_addresses returned a non-empty list whose first entry has no
\* candidate roll and a final balance of at least 100000000000 raw units;
\* it is a RollBuy of 1 roll with fee 0 for the first entry's address;
\* otherwise neither get_status nor send_operations is requested.
C10_BuysOnlyForFirstEntry ==
    /\ frame.present <=> FirstEntryQualifies
    /\ frame.present =>
          /\ frame.op = [variant |-> "RollBuy", roll_count |-> 1]
          /\ frame.fee = [hi |-> 0, lo |-> 0]
          /\ frame.addr = wallet_info.value[1].address
          /\ Cardinality(CallsOf("get_status")) = 1
    /\ ~frame.present =>
          /\ CallsOf("get_status") = {}
          /\ CallsOf("send_operations") = {}
    /\ Cardinality(CallsOf("send_operations")) <= 1
    /\ \A i \in CallsOf("send_operations") :
          calls[i].arg.items[1].items[1].items[1].signed_for
              = wallet_info.value[1].address

C10_Witness ==
    /\ CallsOf("send_operations") # {}
    /\ Len(wallet_info.value) = 2
    /\ wallet_info.value[2].address # wallet_info.value[1].address
    /\ wallet_info.value[2].candidate_rolls # 0
    /\ wallet_info.value[1].balance = AmountFromRaw(100, 0)

====
